---------------------------- MODULE Spec2Model ----------------------------
(***************************************************************************)
(* Lithium: a prototype-based, message-passing language.  This module      *)
(* models the object arena (src/src/object.rs) and the evaluator and the   *)
(* native object kinds (src/src/eval.rs).                                  *)
(*                                                                         *)
(* The source is part-way through a migration from reference-counted       *)
(* handles to an arena addressed by ObjectRef::Normal(i) / Special(i).     *)
(* The model follows the arena for storage (object.rs 62-78) and the       *)
(* handlers of eval.rs and object.rs for behaviour.  A Rust panic is an    *)
(* outcome whose `error` field names the panic site's error kind; the     *)
(* state reached when the panic was raised is kept (nothing is rolled      *)
(* back).                                                                  *)
(*                                                                         *)
(* Every handler is an operator from an evaluation state                   *)
(*   st = [normal_objects, special_objects, stdout, trace]                 *)
(* to an outcome [st, error, value].  `trace` is a history of the events   *)
(* of the current operation (handler entered, statement started, line      *)
(* printed, property defined, panic raised), in the order the code         *)
(* performs them.                                                          *)
(***************************************************************************)
EXTENDS Integers, Sequences, FiniteSets, TLC

VARIABLES normal_objects,   \* ObjectPool.normal_objects   (object.rs:63)
          special_objects,  \* ObjectPool.special_objects  (object.rs:64)
          stdout,           \* the lines written by println!, oldest first
          overflow_checks,  \* build profile: does i64 `+` panic on overflow
          last,             \* the last operation, its inputs and its outcome
          ops               \* number of operations performed so far

vars == <<normal_objects, special_objects, stdout, overflow_checks, last, ops>>

(***************************************************************************)
(* Bounds of the model.                                                    *)
(***************************************************************************)
MaxOps == 3
MaxDepth == 12
MaxStatements == 3
MaxArguments == 2

(***************************************************************************)
(* 64-bit signed integers (Metadata::NumericValue(i64), object.rs:58).     *)
(* An i64 is four 16-bit limbs, least significant first, in two's          *)
(* complement, so that the arithmetic keeps its 64-bit width.              *)
(***************************************************************************)
LimbBase == 2^16

I64 == [1..4 -> 0..(LimbBase - 1)]

IsNegative(a) == a[4] >= LimbBase \div 2

\* The carry into limb i+1 when adding a, b (with carry-in cin to limb 1).
RECURSIVE CarryOut(_, _, _, _)
CarryOut(a, b, cin, i) ==
    IF i = 0 THEN cin
    ELSE (a[i] + b[i] + CarryOut(a, b, cin, i - 1)) \div LimbBase

\* a + b + cin modulo 2^64.
WrappingAddCarry(a, b, cin) ==
    [i \in 1..4 |-> (a[i] + b[i] + CarryOut(a, b, cin, i - 1)) % LimbBase]

WrappingAdd(a, b) == WrappingAddCarry(a, b, 0)

\* Signed overflow: the operands agree in sign and the sum does not.
AddOverflows(a, b) ==
    /\ IsNegative(a) = IsNegative(b)
    /\ IsNegative(WrappingAdd(a, b)) # IsNegative(a)

I64Zero == [i \in 1..4 |-> 0]
I64One == [i \in 1..4 |-> IF i = 1 THEN 1 ELSE 0]
I64Max == [i \in 1..4 |-> IF i = 4 THEN LimbBase \div 2 - 1 ELSE LimbBase - 1]
I64Min == [i \in 1..4 |-> IF i = 4 THEN LimbBase \div 2 ELSE 0]

Complement(a) == [i \in 1..4 |-> LimbBase - 1 - a[i]]

\* -a modulo 2^64.
WrappingNeg(a) == WrappingAddCarry(Complement(a), I64Zero, 1)

\* The i64 of a small model integer.
RECURSIVE NatLimbs(_, _)
NatLimbs(n, i) ==
    IF i > 4 THEN <<>> ELSE <<n % LimbBase>> \o NatLimbs(n \div LimbBase, i + 1)

ToI64(n) ==
    LET m == NatLimbs(IF n < 0 THEN -n ELSE n, 1)
        a == [i \in 1..4 |-> m[i]]
    IN IF n < 0 THEN WrappingNeg(a) ELSE a

(***************************************************************************)
(* str::parse::<i64> on a string of decimal digits (eval.rs:121).  The     *)
(* tokenizer yields digits only (parser.rs:230-237), so there is no sign.  *)
(* A string is the sequence of its characters.                             *)
(* The outcome is <<TRUE, value>>, or <<FALSE, _>> when the number does    *)
(* not fit in an i64 (parse returns Err and unwrap panics).                *)
(***************************************************************************)
\* a * 10 + d over the limbs; the carry out of limb i.
RECURSIVE MulAddCarry(_, _, _)
MulAddCarry(a, d, i) ==
    IF i = 0 THEN d ELSE (a[i] * 10 + MulAddCarry(a, d, i - 1)) \div LimbBase

MulAdd(a, d) ==
    [i \in 1..4 |-> (a[i] * 10 + MulAddCarry(a, d, i - 1)) % LimbBase]

DigitChars == <<"0", "1", "2", "3", "4", "5", "6", "7", "8", "9">>

DigitValue(c) == (CHOOSE k \in 1..10 : DigitChars[k] = c) - 1

RECURSIVE ParseDigits(_, _, _)
ParseDigits(digits, i, acc) ==
    IF i > Len(digits) THEN <<TRUE, acc>>
    ELSE LET d == DigitValue(digits[i])
             next == MulAdd(acc, d)
         IN IF MulAddCarry(acc, d, 4) > 0 \/ IsNegative(next)
            THEN <<FALSE, acc>>
            ELSE ParseDigits(digits, i + 1, next)

parse_i64(digits) ==
    IF Len(digits) = 0 THEN <<FALSE, I64Zero>> ELSE ParseDigits(digits, 1, I64Zero)

(***************************************************************************)
(* Display for i64, used by println!("{}", numeric_value) (eval.rs:150):   *)
(* the decimal digits, most significant first, after "-" when negative.    *)
(***************************************************************************)
\* Unsigned division of the limbs by 10: the remainder left below limb i.
RECURSIVE DivRem(_, _)
DivRem(a, i) ==
    IF i > 4 THEN 0 ELSE (DivRem(a, i + 1) * LimbBase + a[i]) % 10

DivTen(a) == [i \in 1..4 |-> (DivRem(a, i + 1) * LimbBase + a[i]) \div 10]

RECURSIVE UnsignedDigits(_)
UnsignedDigits(a) ==
    IF a = I64Zero THEN <<>>
    ELSE UnsignedDigits(DivTen(a)) \o <<DigitChars[DivRem(a, 1) + 1]>>

display_i64(a) ==
    IF a = I64Zero THEN <<"0">>
    ELSE IF IsNegative(a) THEN <<"-">> \o UnsignedDigits(WrappingNeg(a))
    ELSE UnsignedDigits(a)

(***************************************************************************)
(* Handles (ObjectRef, object.rs:67-71).  Indices count from 1 here and    *)
(* from 0 in the source.                                                   *)
(***************************************************************************)
Normal(i) == [tag |-> "Normal", index |-> i]
Special(i) == [tag |-> "Special", index |-> i]
NoRef == [tag |-> "None", index |-> 0]

\* Metadata (object.rs:56-60).
NumericValue(v) == [tag |-> "NumericValue", val |-> v]
MetadataNone == [tag |-> "None", val |-> I64Zero]

\* The native kinds: RootObject, Void, Number, Lambda (eval.rs:26, 83, 98, 117).
RootObject == [kind |-> "Root", metadata |-> MetadataNone,
               parent_scope |-> NoRef, body |-> [statements |-> <<>>]]
Void == [kind |-> "Void", metadata |-> MetadataNone,
         parent_scope |-> NoRef, body |-> [statements |-> <<>>]]
Number(v) == [kind |-> "Number", metadata |-> NumericValue(v),
              parent_scope |-> NoRef, body |-> [statements |-> <<>>]]
Lambda(scope, block) == [kind |-> "Lambda", metadata |-> MetadataNone,
                         parent_scope |-> scope, body |-> block]

\* EvaluatedMessage (object.rs:11-15): a name and (name, handle) pairs.
EvaluatedMessage(name, arguments) == [name |-> name, arguments |-> arguments]

(***************************************************************************)
(* Evaluation states, events and outcomes.                                 *)
(***************************************************************************)
Event(ev, obj, ctx, name, n) ==
    [ev |-> ev, obj |-> obj, ctx |-> ctx, name |-> name, n |-> n]

Log(st, e) == [st EXCEPT !.trace = Append(@, e)]

\* A handler returned `v`.
Ok(st, v) == [st |-> st, error |-> "None", value |-> v]

\* A handler panicked; `kind` is the error kind of the panic site.
Panic(st, kind) ==
    [st |-> Log(st, Event("panic", NoRef, NoRef, kind, 0)),
     error |-> kind, value |-> NoRef]

Failed(r) == r.error # "None"

KindOf(st, h) ==
    IF h.tag = "Normal" THEN "Normal" ELSE st.special_objects[h.index].kind

\* The payload read through a handle: `target.metadata` (eval.rs:139, 158).
\* A NormalObject carries none (object.rs:21, never set by `extending`).
MetadataOf(st, h) ==
    IF h.tag = "Normal" THEN MetadataNone ELSE st.special_objects[h.index].metadata

(***************************************************************************)
(* The arena (object.rs:62-78) and the constructors of the native kinds.   *)
(***************************************************************************)
\* NormalObject::extending (object.rs:24-32).
extending(prototype) ==
    [prototype |-> prototype, properties |-> <<>>, metadata |-> MetadataNone]

\* create putting the new object in front of the objects there are, which
\* moves each of them by one.
create_at_front(st, prototype) ==
    LET st1 == [st EXCEPT !.normal_objects = <<extending(prototype)>> \o @]
    IN Ok(st1, Normal(Len(st1.normal_objects)))

\* create linking the new object to itself instead of the prototype given.
create_own_prototype(st, prototype) ==
    LET own == Normal(Len(st.normal_objects) + 1)
        st1 == [st EXCEPT !.normal_objects = Append(@, extending(own))]
    IN Ok(st1, own)

\* ObjectPool::create (object.rs:73-78).
create(st, prototype) ==
    LET st1 == [st EXCEPT !.normal_objects = Append(@, extending(prototype))]
    IN Ok(st1, Normal(Len(st1.normal_objects)))

\* ObjectRef::new / new_with_metadata (eval.rs:56-70): a native object enters
\* the arena's special_objects (object.rs:64).
ObjectRef_new(st, object) ==
    LET st1 == [st EXCEPT !.special_objects = Append(@, object)]
    IN Ok(st1, Special(Len(st1.special_objects)))

\* Void::new_reference (eval.rs:100-104).
Void_new_reference(st) == ObjectRef_new(st, Void)

\* Number::new_from_value (eval.rs:124-129).
Number_new_from_value(st, value) == ObjectRef_new(st, Number(value))

\* Number::new_reference (eval.rs:120-122).
Number_new_reference(st, digits) ==
    LET parsed == parse_i64(digits)
    IN IF parsed[1] THEN Number_new_from_value(st, parsed[2])
       ELSE Panic(st, "ParseIntError")

(***************************************************************************)
(* Signature (eval.rs:8-23).                                               *)
(***************************************************************************)
\* arguments.iter().any(|(name, _)| name == parameter), from argument i on.
RECURSIVE any_named(_, _, _)
any_named(arguments, parameter, i) ==
    IF i > Len(arguments) THEN FALSE
    ELSE IF arguments[i][1] = parameter THEN TRUE
    ELSE any_named(arguments, parameter, i + 1)

\* The loop over the parameters, from parameter i on (eval.rs:16-21).
RECURSIVE all_parameters_named(_, _, _)
all_parameters_named(parameters, arguments, i) ==
    IF i > Len(parameters) THEN TRUE
    ELSE IF ~any_named(arguments, parameters[i], 1) THEN FALSE
    ELSE all_parameters_named(parameters, arguments, i + 1)

\* is_message_valid without the comparison of the lengths.
is_message_valid_no_count(parameters, message) ==
    all_parameters_named(parameters, message.arguments, 1)

\* Signature::is_message_valid (eval.rs:14-22).
is_message_valid(parameters, message) ==
    IF Len(message.arguments) # Len(parameters) THEN FALSE
    ELSE all_parameters_named(parameters, message.arguments, 1)

\* number_add_signature (eval.rs:144-146).
number_add_signature == <<"to">>

\* get_argument (eval.rs:132-135): the first argument named `target`;
\* <<FALSE, _>> is the unwrap of an empty iterator.
RECURSIVE get_argument_from(_, _, _)
get_argument_from(target, arguments, i) ==
    IF i > Len(arguments) THEN <<FALSE, NoRef>>
    ELSE IF arguments[i][1] = target THEN <<TRUE, arguments[i][2]>>
    ELSE get_argument_from(target, arguments, i + 1)

get_argument(target, arguments) == get_argument_from(target, arguments, 1)

(***************************************************************************)
(* The native handlers that evaluate no block.                             *)
(***************************************************************************)
\* RootObject::send answering with the context, as a Void does.
RootObject_send_context(st, target, message) == Ok(st, target)

\* RootObject::send (eval.rs:86-90).
RootObject_send(st, target, message) == Panic(st, "UnknownMessage")

\* Void::send answering with a new Void instead of the context.
Void_send_new_void(st, target, message) == Void_new_reference(st)

\* Void::send (eval.rs:107-109).
Void_send(st, target, message) == Ok(st, target)

\* The addition saturating at the ends of the range instead of wrapping.
Number_add_saturating(st, numeric_value, val) ==
    IF ~AddOverflows(numeric_value, val)
    THEN Number_new_from_value(st, WrappingAdd(numeric_value, val))
    ELSE IF overflow_checks THEN Panic(st, "ArithmeticOverflow")
    ELSE Number_new_from_value(st, IF IsNegative(numeric_value) THEN I64Min ELSE I64Max)

\* numeric_value + val (eval.rs:159): i64 addition panics on overflow in a
\* build with overflow checks and wraps in a build without.
Number_add(st, numeric_value, val) ==
    IF overflow_checks /\ AddOverflows(numeric_value, val)
    THEN Panic(st, "ArithmeticOverflow")
    ELSE Number_new_from_value(st, WrappingAdd(numeric_value, val))

\* Number::send (eval.rs:138-166).
Number_send(st, target, message) ==
    LET md == MetadataOf(st, target)
    IN IF md.tag # "NumericValue" THEN Panic(st, "NoNumericValue")
       ELSE IF message.name = "println"
       THEN LET st1 == [st EXCEPT !.stdout = Append(@, display_i64(md.val))]
            IN Void_new_reference(Log(st1, Event("println", target, NoRef, "", 0)))
       ELSE IF message.name = "add"
       THEN IF ~is_message_valid(number_add_signature, message)
            THEN Panic(st, "InvalidSignature")
            ELSE LET other == get_argument("to", message.arguments)
                 IN IF ~other[1] THEN Panic(st, "MissingArgument")
                    ELSE IF MetadataOf(st, other[2]).tag # "NumericValue"
                    THEN Panic(st, "TypeMismatch")
                    ELSE Number_add(st, md.val, MetadataOf(st, other[2]).val)
       ELSE Panic(st, "UnknownMessage")

\* NormalObject::define (object.rs:49-52): insert or overwrite.
NormalObject_define(st, index, name, value) ==
    LET old == st.normal_objects[index].properties
        new == [k \in DOMAIN old \cup {name} |-> IF k = name THEN value ELSE old[k]]
        st1 == [st EXCEPT !.normal_objects[index].properties = new]
    IN Ok(Log(st1, Event("define", Normal(index), value, name, 0)), value)

\* Lambda::define (eval.rs:51-53).
Lambda_define(st, name, value) == Panic(st, "IllegalDefinition")

\* RootObject::define (eval.rs:92-94).
RootObject_define(st, name, value) == Panic(st, "IllegalDefinition")

\* Void::define (eval.rs:111-113).
Void_define(st, name, value) == Panic(st, "IllegalDefinition")

\* Number::define (eval.rs:168-170).
Number_define(st, name, value) == Panic(st, "IllegalDefinition")

\* define storing nothing and returning the value on a native receiver.
define_native_ignored(st, reference, name, value) ==
    IF reference.tag = "Normal"
    THEN NormalObject_define(st, reference.index, name, value)
    ELSE Ok(st, value)

\* define through a handle (eval.rs:77-79, object.rs:88): the receiver's own
\* define.
define(st, reference, name, value) ==
    LET kind == KindOf(st, reference)
    IN CASE kind = "Normal" -> NormalObject_define(st, reference.index, name, value)
         [] kind = "Root" -> RootObject_define(st, name, value)
         [] kind = "Void" -> Void_define(st, name, value)
         [] kind = "Number" -> Number_define(st, name, value)
         [] kind = "Lambda" -> Lambda_define(st, name, value)

(***************************************************************************)
(* Dispatch and the evaluator (object.rs:37-47, 81-86; eval.rs:31-49,      *)
(* 178-235).  `depth` counts the nested send and eval_block calls on the   *)
(* stack; a recursion deeper than MaxDepth stands for the stack overflow   *)
(* that ends an unbounded recursion.                                       *)
(***************************************************************************)
RECURSIVE send(_, _, _, _, _)
RECURSIVE get_handler(_, _, _, _, _)
RECURSIVE Lambda_send(_, _, _, _, _)
RECURSIVE call_with_captured_context(_, _, _)
RECURSIVE eval_block(_, _, _, _)
RECURSIVE eval_statements(_, _, _, _, _)
RECURSIVE eval_statement(_, _, _, _)
RECURSIVE eval_arguments(_, _, _, _, _, _)
RECURSIVE eval_message(_, _, _, _)
RECURSIVE send_messages(_, _, _, _, _, _)
RECURSIVE eval_target(_, _, _, _)
RECURSIVE eval_expression(_, _, _, _)

\* ObjectPool::send (object.rs:81-86) with the Object::send contract
\* (object.rs:5): the receiver's handler gets the execution context `target`.
send(st, reference, target, message, depth) ==
    IF depth > MaxDepth THEN Panic(st, "StackOverflow")
    ELSE LET st1 == Log(st, Event("send", reference, target, message.name,
                                  Len(message.arguments)))
             kind == KindOf(st, reference)
         IN CASE kind = "Normal" -> get_handler(st1, reference.index, target, message, depth)
              [] kind = "Root" -> RootObject_send(st1, target, message)
              [] kind = "Void" -> Void_send(st1, target, message)
              [] kind = "Number" -> Number_send(st1, target, message)
              [] kind = "Lambda" -> Lambda_send(st1, reference, target, message, depth)

\* get_handler delegating with the prototype as the execution context.
get_handler_prototype_context(st, index, target, message, depth) ==
    LET self == st.normal_objects[index]
        found == message.name \in DOMAIN self.properties
        st1 == Log(st, Event("lookup", Normal(index), target, message.name,
                             IF found THEN 1 ELSE 0))
    IN IF found
       THEN send(st1, self.properties[message.name], self.properties[message.name],
                 EvaluatedMessage("call", <<>>), depth + 1)
       ELSE send(st1, self.prototype, self.prototype, message, depth + 1)

\* get_handler handing the message it received, arguments included, to the
\* property found.
get_handler_forwards_message(st, index, target, message, depth) ==
    LET self == st.normal_objects[index]
        found == message.name \in DOMAIN self.properties
        st1 == Log(st, Event("lookup", Normal(index), target, message.name,
                             IF found THEN 1 ELSE 0))
    IN IF found
       THEN send(st1, self.properties[message.name], self.properties[message.name],
                 message, depth + 1)
       ELSE send(st1, self.prototype, target, message, depth + 1)

\* NormalObject::get_handler (object.rs:37-47).
get_handler(st, index, target, message, depth) ==
    LET self == st.normal_objects[index]
        found == message.name \in DOMAIN self.properties
        st1 == Log(st, Event("lookup", Normal(index), target, message.name,
                             IF found THEN 1 ELSE 0))
    IN IF found
       THEN LET defined_object == self.properties[message.name]
                clone == defined_object
            IN send(st1, defined_object, clone, EvaluatedMessage("call", <<>>), depth + 1)
       ELSE send(st1, self.prototype, target, message, depth + 1)

\* Lambda::send (eval.rs:44-49).
Lambda_send(st, reference, target, message, depth) ==
    IF message.name = "call"
    THEN call_with_captured_context(st, st.special_objects[reference.index], depth)
    ELSE Panic(st, "UnknownMessage")

\* Lambda::call_with_captured_context (eval.rs:32-34).
call_with_captured_context(st, self, depth) ==
    eval_block(st, self.parent_scope, self.body, depth + 1)

\* eval_block whose loop starts over at the first statement after having
\* evaluated it (the iterator is not advanced).
eval_block_first_twice(st, parent_scope, block, depth) ==
    IF depth > MaxDepth THEN Panic(st, "StackOverflow")
    ELSE LET created == create(st, parent_scope)
             scope == created.value
             st1 == Log(created.st, Event("block", scope, parent_scope, "",
                                          Len(block.statements)))
             st2 == Log(st1, Event("statement", scope, NoRef,
                                   block.statements[1].type, 1))
             first == eval_statement(st2, scope, block.statements[1], depth)
         IN IF Len(block.statements) = 0 THEN Panic(st1, "EmptyBlock")
            ELSE IF Failed(first) THEN first
            ELSE eval_statements(first.st, scope, block.statements, 1, depth)

\* eval_block taking an empty block to have the value Void.
eval_block_empty_is_void(st, parent_scope, block, depth) ==
    IF depth > MaxDepth THEN Panic(st, "StackOverflow")
    ELSE LET created == create(st, parent_scope)
             scope == created.value
             st1 == Log(created.st, Event("block", scope, parent_scope, "",
                                          Len(block.statements)))
         IN IF Len(block.statements) = 0 THEN Void_new_reference(st1)
            ELSE eval_statements(st1, scope, block.statements, 1, depth)

\* Lambda::call_with_context (eval.rs:36-40).  No code calls it.
call_with_context(st, self, context, depth) ==
    eval_block(st, context, self.body, depth + 1)

\* The end of eval_block (eval.rs:190-191): the block whose scope is `scope`
\* is left with the outcome `last_value` of its statements, which is bound as
\* the element of a set so that it is evaluated once.
returned(scope, last_value) ==
    CHOOSE outcome \in
        {IF Failed(v) THEN v
         ELSE Ok(Log(v.st, Event("return", scope, v.value, "", 0)), v.value) :
             v \in {last_value}} : TRUE

\* Program::eval_block (eval.rs:184-191).
eval_block(st, parent_scope, block, depth) ==
    IF depth > MaxDepth THEN Panic(st, "StackOverflow")
    ELSE LET created == create(st, parent_scope)
             scope == created.value
             st1 == Log(created.st, Event("block", scope, parent_scope, "",
                                          Len(block.statements)))
         IN IF Len(block.statements) = 0 THEN Panic(st1, "EmptyBlock")
            ELSE returned(scope, eval_statements(st1, scope, block.statements, 1, depth))

\* The loop of eval_block going on with the next statement after a failed
\* one.
eval_statements_resuming(st, scope, statements, i, depth) ==
    LET st1 == Log(st, Event("statement", scope, NoRef, statements[i].type, i))
        last_value == eval_statement(st1, scope, statements[i], depth)
    IN IF i = Len(statements) THEN last_value
       ELSE eval_statements(last_value.st, scope, statements, i + 1, depth)

\* The loop of eval_block over the statements, from statement i on
\* (eval.rs:186-190); the value is that of the last statement.
eval_statements(st, scope, statements, i, depth) ==
    LET st1 == Log(st, Event("statement", scope, NoRef, statements[i].type, i))
        last_value == eval_statement(st1, scope, statements[i], depth)
    IN IF Failed(last_value) \/ i = Len(statements) THEN last_value
       ELSE eval_statements(last_value.st, scope, statements, i + 1, depth)

\* eval_statement defining on the enclosing scope, where there is one,
\* instead of the scope of the block.
eval_statement_defines_outside(st, scope, statement, depth) ==
    IF statement.type = "Definition"
    THEN LET value == eval_expression(st, scope, statement.value, depth)
             outer == st.normal_objects[scope.index].prototype
         IN IF Failed(value) THEN value
            ELSE define(value.st, IF outer.tag = "Normal" THEN outer ELSE scope,
                        statement.target, value.value)
    ELSE eval_expression(st, scope, statement.expression, depth)

\* Program::eval_statement (eval.rs:193-201).
eval_statement(st, scope, statement, depth) ==
    IF statement.type = "Definition"
    THEN LET value == eval_expression(st, scope, statement.value, depth)
         IN IF Failed(value) THEN value
            ELSE define(value.st, scope, statement.target, value.value)
    ELSE eval_expression(st, scope, statement.expression, depth)

\* The map of eval_message over the arguments, from argument i on
\* (eval.rs:204-207); `bindings` are the pairs evaluated so far.
eval_arguments(st, scope, arguments, i, bindings, depth) ==
    IF i > Len(arguments) THEN Ok(st, bindings)
    ELSE LET st1 == Log(st, Event("argument", scope, NoRef, arguments[i].name, i))
             evaluated == eval_expression(st1, scope, arguments[i].value, depth)
         IN IF Failed(evaluated) THEN evaluated
            ELSE eval_arguments(evaluated.st, scope, arguments, i + 1,
                                Append(bindings, <<arguments[i].name, evaluated.value>>),
                                depth)

\* eval_message going through the arguments from the last to the first.
eval_message_last_first(st, scope, message, depth) ==
    LET n == Len(message.arguments)
        reversed == [i \in 1..n |-> message.arguments[n + 1 - i]]
        bindings == eval_arguments(st, scope, reversed, 1, <<>>, depth)
    IN IF Failed(bindings) THEN bindings
       ELSE Ok(bindings.st, EvaluatedMessage(message.name, bindings.value))

\* Program::eval_message (eval.rs:203-209).
eval_message(st, scope, message, depth) ==
    LET bindings == eval_arguments(st, scope, message.arguments, 1, <<>>, depth)
    IN IF Failed(bindings) THEN bindings
       ELSE Ok(bindings.st, EvaluatedMessage(message.name, bindings.value))

\* send.messages.iter().map(..).last() (eval.rs:224-227), from message i on.
\* The closure sends every message to `target`, which it never reassigns;
\* `result` is the value of the message before i.
send_messages(st, scope, target, messages, i, depth) ==
    LET evaluated == eval_message(st, scope, messages[i], depth)
        result == IF Failed(evaluated) THEN evaluated
                  ELSE send(evaluated.st, target, target, evaluated.value, depth + 1)
    IN IF Failed(result) \/ i = Len(messages) THEN result
       ELSE send_messages(result.st, scope, target, messages, i + 1, depth)

\* The target of a send (eval.rs:214-223).
eval_target(st, scope, target, depth) ==
    CASE target.type = "Identifier" ->
            send(st, scope, scope, EvaluatedMessage(target.ident, <<>>), depth + 1)
      [] target.type = "Number" -> Number_new_reference(st, target.num)
      [] target.type = "Expression" ->
            eval_expression(st, scope, target.expression, depth)

\* Program::eval_expression (eval.rs:211-234).
eval_expression(st, scope, expression, depth) ==
    CASE expression.type = "Send" ->
            LET target == eval_target(st, scope, expression.target, depth)
            IN IF Failed(target) THEN target
               ELSE IF Len(expression.messages) = 0
               THEN Panic(target.st, "EmptyExpression")
               ELSE send_messages(target.st, scope, target.value,
                                  expression.messages, 1, depth)
      [] expression.type = "Number" -> Number_new_reference(st, expression.digits)
      [] expression.type = "Lambda" ->
            ObjectRef_new(st, Lambda(scope, expression.block))

\* Program::eval (eval.rs:178-182).
eval(st, block) ==
    LET root_ref == ObjectRef_new(st, RootObject)
    IN eval_block(root_ref.st, root_ref.value, block, 1)

(***************************************************************************)
(* The syntax tree (parser.rs:5-56).                                       *)
(***************************************************************************)
Block(statements) == [statements |-> statements]
Definition(target, value) == [type |-> "Definition", target |-> target, value |-> value]
Expression(expression) == [type |-> "Expression", expression |-> expression]
SendTo(target, messages) == [type |-> "Send", target |-> target, messages |-> messages]
NumberLiteral(digits) == [type |-> "Number", digits |-> digits]
LambdaLiteral(block) == [type |-> "Lambda", block |-> block]
Identifier(ident) == [type |-> "Identifier", ident |-> ident]
NumberTarget(num) == [type |-> "Number", num |-> num]
ExpressionTarget(expression) == [type |-> "Expression", expression |-> expression]
Message(name, arguments) == [name |-> name, arguments |-> arguments]
Argument(name, value) == [name |-> name, value |-> value]

(***************************************************************************)
(* The state machine.  An operation runs to completion; a panic ends the   *)
(* process, so no operation follows one.                                   *)
(***************************************************************************)
EmptyState == [normal_objects |-> <<>>, special_objects |-> <<>>,
               stdout |-> <<>>, trace |-> <<>>]

\* The evaluation state an operation starts from.
Current == [normal_objects |-> normal_objects, special_objects |-> special_objects,
            stdout |-> stdout, trace |-> <<>>]

NoMessage == EvaluatedMessage("", <<>>)

NoOperation ==
    [op |-> "none", reference |-> NoRef, target |-> NoRef, message |-> NoMessage,
     name |-> "", parameters |-> <<>>, block |-> Block(<<>>), valid |-> FALSE,
     declared |-> Message("", <<>>),
     error |-> "None", value |-> NoRef, before |-> EmptyState, trace |-> <<>>]

Handles ==
    {Normal(i) : i \in 1..Len(normal_objects)}
        \cup {Special(i) : i \in 1..Len(special_objects)}

Running == last.error = "None" /\ ops < MaxOps

\* The state after an operation with outcome r; `op` records its inputs.
Completes(op, r) ==
    /\ normal_objects' = r.st.normal_objects
    /\ special_objects' = r.st.special_objects
    /\ stdout' = r.st.stdout
    /\ last' = [op EXCEPT !.error = r.error, !.value = r.value,
                          !.before = Current, !.trace = r.st.trace]
    /\ ops' = ops + 1
    /\ UNCHANGED overflow_checks

\* The arena once the Root sentinel is in it (eval.rs:179-180).
Init ==
    /\ normal_objects = <<>>
    /\ special_objects = <<RootObject>>
    /\ stdout = <<>>
    /\ overflow_checks \in BOOLEAN
    /\ last = NoOperation
    /\ ops = 0

(***************************************************************************)
(* The operations on the arena and its objects, called with any handles    *)
(* of the arena.                                                           *)
(***************************************************************************)
\* The payloads given to Number::new_from_value.
Values == {ToI64(1), I64Max, I64Min}

\* The property name given to define.
Names == {"x"}

\* The message names sent.
MessageNames == {"x", "call", "println", "add"}

\* The argument lists sent with a message to `reference`: none, one named
\* `amount`, two, and one named `to` (for `add`, any handle of the arena).
ArgumentLists(name, reference) ==
    {<<>>, <<<<"amount", reference>>>>, <<<<"to", reference>>, <<"amount", reference>>>>}
        \cup {<<<<"to", h>>>> : h \in (IF name = "add" THEN Handles ELSE {reference})}

\* The bodies of the lambdas made: empty, `x call`, `1 println`.
LambdaBodies ==
    {Block(<<>>),
     Block(<<Expression(SendTo(Identifier("x"), <<Message("call", <<>>)>>))>>),
     Block(<<Expression(SendTo(NumberTarget(<<"1">>), <<Message("println", <<>>)>>))>>)}

\* Void::new_reference (eval.rs:101-103).
NewVoid ==
    /\ Running
    /\ Completes([NoOperation EXCEPT !.op = "new_void"], Void_new_reference(Current))

\* Number::new_from_value (eval.rs:124-129).
NewNumber ==
    /\ Running
    /\ \E v \in Values :
          Completes([NoOperation EXCEPT !.op = "new_number"],
                    Number_new_from_value(Current, v))

\* A lambda literal evaluated under a scope (eval.rs:230-232).
NewLambda ==
    /\ Running
    /\ \E scope \in Handles, block \in LambdaBodies :
          Completes([NoOperation EXCEPT !.op = "new_lambda", !.reference = scope,
                                        !.block = block],
                    eval_expression(Current, scope, LambdaLiteral(block), 1))

\* ObjectPool::create (object.rs:74-78).
Create ==
    /\ Running
    /\ \E prototype \in Handles :
          Completes([NoOperation EXCEPT !.op = "create", !.reference = prototype],
                    create(Current, prototype))

\* define on a handle (object.rs:88, eval.rs:77-79).
Define ==
    /\ Running
    /\ \E reference \in Handles, name \in Names, value \in Handles :
          Completes([NoOperation EXCEPT !.op = "define", !.reference = reference,
                                        !.name = name, !.target = value],
                    define(Current, reference, name, value))

\* send on a handle with an execution context (object.rs:5, 81-86).
Send ==
    /\ Running
    /\ \E reference \in Handles, target \in Handles,
          name \in MessageNames :
          \E arguments \in ArgumentLists(name, reference) :
          LET message == EvaluatedMessage(name, arguments)
          IN Completes([NoOperation EXCEPT !.op = "send", !.reference = reference,
                                           !.target = target, !.message = message],
                       send(Current, reference, target, message, 1))

\* The parameter lists and argument names given to is_message_valid.
ParameterLists == {<<>>, <<"to">>, <<"to", "by">>, <<"to", "to">>}

ArgumentNames == {"to", "by", "amount"}

RECURSIVE NameLists(_)
NameLists(n) ==
    IF n = 0 THEN {<<>>}
    ELSE {Append(l, a) : l \in NameLists(n - 1), a \in ArgumentNames}

\* Signature::is_message_valid (eval.rs:14-22).  It reads no state, so it is
\* applied in the initial arena only; every argument is the Root handle.
IsMessageValid ==
    /\ Running
    /\ ops = 0
    /\ \E parameters \in ParameterLists :
       \E names \in UNION {NameLists(n) : n \in 0..MaxArguments} :
          LET message == EvaluatedMessage("add",
                             [i \in 1..Len(names) |-> <<names[i], Special(1)>>])
          IN Completes([NoOperation EXCEPT !.op = "is_message_valid",
                                           !.parameters = parameters,
                                           !.message = message,
                                           !.valid = is_message_valid(parameters, message)],
                       Ok(Current, NoRef))

Next ==
    \/ NewVoid \/ NewNumber \/ NewLambda \/ Create \/ Define \/ Send
    \/ IsMessageValid

Spec == Init /\ [][Next]_vars

(***************************************************************************)
(* Program::eval on a program: the driver evaluates one program in an      *)
(* empty arena and the process ends.                                       *)
(***************************************************************************)
Digits(c) == <<c>>
Call == Message("call", <<>>)
Println == Message("println", <<>>)
SendIdentifier(ident, message) == SendTo(Identifier(ident), <<message>>)
PrintNumber(c) == Expression(SendTo(NumberTarget(Digits(c)), <<Println>>))
PrintingLambda(c) == LambdaLiteral(Block(<<PrintNumber(c)>>))

\* The statements the generated programs are made of:
\*   1 println | def x [2 println] | def x [3 println] | x call
\*   | def f [x call] | f call
StatementPool ==
    {PrintNumber("1"),
     Definition("x", PrintingLambda("2")),
     Definition("x", PrintingLambda("3")),
     Expression(SendIdentifier("x", Call)),
     Definition("f", LambdaLiteral(Block(<<Expression(SendIdentifier("x", Call))>>))),
     Expression(SendIdentifier("f", Call))}

RECURSIVE BlocksOfLength(_)
BlocksOfLength(n) ==
    IF n = 0 THEN {<<>>}
    ELSE {Append(b, s) : b \in BlocksOfLength(n - 1), s \in StatementPool}

GeneratedPrograms ==
    {Block(b) : b \in UNION {BlocksOfLength(n) : n \in 0..MaxStatements}}

\* def x 1 / def f [x println] / def x 2 / f call
ClosureProgram ==
    Block(<<Definition("x", NumberLiteral(Digits("1"))),
            Definition("f", LambdaLiteral(Block(<<Expression(SendIdentifier("x", Println))>>))),
            Definition("x", NumberLiteral(Digits("2"))),
            Expression(SendIdentifier("f", Call))>>)

\* def x [2 println] / def f [x call] / def x [3 println] / f call
LambdaClosureProgram ==
    Block(<<Definition("x", PrintingLambda("2")),
            Definition("f", LambdaLiteral(Block(<<Expression(SendIdentifier("x", Call))>>))),
            Definition("x", PrintingLambda("3")),
            Expression(SendIdentifier("f", Call))>>)

\* def x 1 / def x 2 / x println
RedefinitionProgram ==
    Block(<<Definition("x", NumberLiteral(Digits("1"))),
            Definition("x", NumberLiteral(Digits("2"))),
            Expression(SendIdentifier("x", Println))>>)

\* def greet [name call] / def c [def name [7 println] ; greet call] / c call
\* The top-level scope is P and holds greet; the scope of c's body is C,
\* extends P and holds name.
GreetProgram ==
    Block(<<Definition("greet", LambdaLiteral(Block(<<Expression(SendIdentifier("name", Call))>>))),
            Definition("c", LambdaLiteral(Block(
                <<Definition("name", PrintingLambda("7")),
                  Expression(SendIdentifier("greet", Call))>>))),
            Expression(SendIdentifier("c", Call))>>)

\* (2 add to: 3) println
AddProgram ==
    Block(<<Expression(SendTo(
        ExpressionTarget(SendTo(NumberTarget(Digits("2")),
            <<Message("add", <<Argument("to", NumberLiteral(Digits("3")))>>)>>)),
        <<Println>>))>>)

\* 2 add amount: 3
MalformedAddProgram ==
    Block(<<Expression(SendTo(NumberTarget(Digits("2")),
        <<Message("add", <<Argument("amount", NumberLiteral(Digits("3")))>>)>>))>>)

\* 1 println / 2 println / 3 println
PrintProgram == Block(<<PrintNumber("1"), PrintNumber("2"), PrintNumber("3")>>)

\* 1 println / def e [] / e call / 2 println
EmptyLambdaProgram ==
    Block(<<PrintNumber("1"),
            Definition("e", LambdaLiteral(Block(<<>>))),
            Expression(SendIdentifier("e", Call)),
            PrintNumber("2")>>)

\* def f [f call] / f call
RecursiveProgram ==
    Block(<<Definition("f", LambdaLiteral(Block(<<Expression(SendIdentifier("f", Call))>>))),
            Expression(SendIdentifier("f", Call))>>)

\* 1 println / 1 add to: (y call) by: (2 println) / 3 println
AbortedArgumentsProgram ==
    Block(<<PrintNumber("1"),
            Expression(SendTo(NumberTarget(Digits("1")),
                <<Message("add",
                    <<Argument("to", SendIdentifier("y", Call)),
                      Argument("by", SendTo(NumberTarget(Digits("2")), <<Println>>))>>)>>)),
            PrintNumber("3")>>)

\* def v [1 println] / 2 println / 1 add to: [1 println] / 3 println
TypeMismatchProgram ==
    Block(<<Definition("v", PrintingLambda("1")),
            PrintNumber("2"),
            Expression(SendTo(NumberTarget(Digits("1")),
                <<Message("add", <<Argument("to", PrintingLambda("1"))>>)>>)),
            PrintNumber("3")>>)

\* def f [1] / f call
NumberBodyProgram ==
    Block(<<Definition("f", LambdaLiteral(Block(<<Expression(NumberLiteral(Digits("1")))>>))),
            Expression(SendIdentifier("f", Call))>>)

\* def f [[1 println]] / f call
LambdaBodyProgram ==
    Block(<<Definition("f", LambdaLiteral(Block(<<Expression(PrintingLambda("1"))>>))),
            Expression(SendIdentifier("f", Call))>>)

\* One send with the chain of two messages `add to: 3` and `println` and
\* the target 2.
ChainProgram ==
    Block(<<Expression(SendTo(NumberTarget(Digits("2")),
        <<Message("add", <<Argument("to", NumberLiteral(Digits("3")))>>), Println>>))>>)

\* 1 add by: (1 println) to: (2 println)
ArgumentsProgram ==
    Block(<<Expression(SendTo(NumberTarget(Digits("1")),
        <<Message("add",
            <<Argument("by", SendTo(NumberTarget(Digits("1")), <<Println>>)),
              Argument("to", SendTo(NumberTarget(Digits("2")), <<Println>>))>>)>>))>>)

\* def x 1 / def p [1 println]
PropertiesProgram ==
    Block(<<Definition("x", NumberLiteral(Digits("1"))),
            Definition("p", PrintingLambda("1"))>>)

\* def x [2 println] / def f [def x [3 println] ; x call] / f call / x call
\* / f call
ShadowProgram ==
    Block(<<Definition("x", PrintingLambda("2")),
            Definition("f", LambdaLiteral(Block(
                <<Definition("x", PrintingLambda("3")),
                  Expression(SendIdentifier("x", Call))>>))),
            Expression(SendIdentifier("f", Call)),
            Expression(SendIdentifier("x", Call)),
            Expression(SendIdentifier("f", Call))>>)

\* def f [def y [1 println] ; 2 println] / f call / f call / y call
LocalProgram ==
    Block(<<Definition("f", LambdaLiteral(Block(
                <<Definition("y", PrintingLambda("1")), PrintNumber("2")>>))),
            Expression(SendIdentifier("f", Call)),
            Expression(SendIdentifier("f", Call)),
            Expression(SendIdentifier("y", Call))>>)

ScenarioPrograms ==
    {ClosureProgram, LambdaClosureProgram, RedefinitionProgram, GreetProgram,
     AddProgram, MalformedAddProgram, PrintProgram, EmptyLambdaProgram,
     RecursiveProgram, AbortedArgumentsProgram, TypeMismatchProgram,
     NumberBodyProgram, LambdaBodyProgram, ChainProgram, ArgumentsProgram,
     PropertiesProgram, ShadowProgram, LocalProgram}

Programs == GeneratedPrograms \cup ScenarioPrograms

\* The arena of a fresh Program (eval.rs:173-175).
InitEval ==
    /\ normal_objects = <<>>
    /\ special_objects = <<>>
    /\ stdout = <<>>
    /\ overflow_checks \in BOOLEAN
    /\ last = NoOperation
    /\ ops = 0

\* Program::eval (eval.rs:178-182).
Eval ==
    /\ ops = 0
    /\ \E block \in Programs :
          Completes([NoOperation EXCEPT !.op = "eval", !.block = block],
                    eval(Current, block))

\* The messages given to eval_message:
\*   add to: 1 by: 2 | add by: (1 println) to: (2 println)
\*   | add to: (x call) by: 3 | println
LiteralArguments ==
    Message("add", <<Argument("to", NumberLiteral(Digits("1"))),
                     Argument("by", NumberLiteral(Digits("2")))>>)

PrintingArguments ==
    Message("add", <<Argument("by", SendTo(NumberTarget(Digits("1")), <<Println>>)),
                     Argument("to", SendTo(NumberTarget(Digits("2")), <<Println>>))>>)

IdentifierArguments ==
    Message("add", <<Argument("to", SendIdentifier("x", Call)),
                     Argument("by", NumberLiteral(Digits("3")))>>)

Messages == {LiteralArguments, PrintingArguments, IdentifierArguments, Println}

\* The state after eval_message with outcome r, whose value is the
\* EvaluatedMessage and no handle: it is recorded as the message.
CompletesMessage(op, r) ==
    Completes([op EXCEPT !.message = IF Failed(r) THEN NoMessage ELSE r.value],
              [r EXCEPT !.value = NoRef])

\* Program::eval_message (eval.rs:203-209) on a message, under a scope the
\* program evaluated has left in the arena.
EvalMessage ==
    /\ ops = 1 /\ last.op = "eval" /\ last.error = "None"
    /\ \E scope \in {Normal(i) : i \in 1..Len(normal_objects)}, message \in Messages :
          CompletesMessage([NoOperation EXCEPT !.op = "eval_message",
                                               !.reference = scope,
                                               !.declared = message],
                           eval_message(Current, scope, message, 1))

\* The names sent to a scope: x, p and f are properties of some scopes, y
\* of none.
ScopeMessageNames == {"x", "p", "f", "y"}

\* send (object.rs:81-86) to a scope the program evaluated has left in the
\* arena, with no argument or with one, the context the scope or the Root.
SendToScope ==
    /\ ops = 1 /\ last.op = "eval" /\ last.error = "None"
    /\ \E scope \in {Normal(i) : i \in 1..Len(normal_objects)},
          name \in ScopeMessageNames :
       \E target \in {scope, Special(1)}, arguments \in {<<>>, <<<<"to", scope>>>>} :
          LET message == EvaluatedMessage(name, arguments)
          IN Completes([NoOperation EXCEPT !.op = "send", !.reference = scope,
                                           !.target = target, !.message = message],
                       send(Current, scope, target, message, 1))

NextEval == Eval \/ EvalMessage \/ SendToScope

SpecEval == InitEval /\ [][NextEval]_vars

(***************************************************************************)
(* Properties.                                                             *)
(***************************************************************************)
\* The arena the last operation started from and the one it left.
Before == last.before

ArenaUnchanged ==
    /\ normal_objects = Before.normal_objects
    /\ special_objects = Before.special_objects

\* The events of the last operation.
Trace == last.trace

\* Event i found no property named by the message on a Normal object.
Delegates(i) == Trace[i].ev = "lookup" /\ Trace[i].n = 0

\* The handler entered after event i got the context `ctx`, the receiver
\* `obj` and the message name `name`.
Enters(i, obj, ctx, name) ==
    /\ i + 1 <= Len(Trace)
    /\ \/ Trace[i + 1].ev = "panic" /\ Trace[i + 1].name = "StackOverflow"
       \/ /\ Trace[i + 1].ev = "send"
          /\ Trace[i + 1].obj = obj
          /\ Trace[i + 1].ctx = ctx
          /\ Trace[i + 1].name = name

\* C1: a Normal object without a local property named by the message
\* forwards the send to its prototype with the execution context it was
\* itself given, at every hop: from the first receiver on, the context is
\* the one the send started with (when that is the receiver, it is never
\* the handle of the prototype reached); a chain that ends in a Void
\* therefore answers with that context.
C1_DelegationKeepsContext ==
    last.op = "send" =>
        /\ \A i \in 1..Len(Trace) :
              Delegates(i) =>
                  /\ i > 1
                  /\ Trace[i - 1].ev = "send"
                  /\ Trace[i - 1].obj = Trace[i].obj
                  /\ Enters(i, normal_objects[Trace[i].obj.index].prototype,
                            Trace[i - 1].ctx, Trace[i - 1].name)
        /\ \A i \in 1..Len(Trace) :
              (\A j \in 1..i : Trace[j].ev = "send" \/ Delegates(j)) =>
                  /\ Trace[i].ctx = last.target
                  /\ (last.target = last.reference /\ i > 1 /\ Trace[i].ev = "send")
                        => Trace[i].ctx # Trace[i].obj
        /\ (/\ \A j \in 1..Len(Trace) : Trace[j].ev = "send" \/ Delegates(j)
            /\ Trace[Len(Trace)].ev = "send"
            /\ KindOf(Before, Trace[Len(Trace)].obj) = "Void")
               => last.error = "None" /\ last.value = last.target

\* A send to a Normal object that reached the Root over two delegations,
\* with the receiver as the context.
C1_Witness ==
    /\ last.op = "send"
    /\ last.reference = last.target
    /\ Len(Trace) = 6
    /\ Delegates(2) /\ Delegates(4)
    /\ Trace[5].ev = "send" /\ KindOf(Before, Trace[5].obj) = "Root"
    /\ Trace[5].ctx = last.reference
    /\ Trace[5].obj # last.reference

\* C4: a send of any message to a Void with any context returns the
\* context, raises no error, writes nothing and changes no object.
C4_VoidReturnsContext ==
    (last.op = "send" /\ KindOf(Before, last.reference) = "Void") =>
        /\ last.error = "None"
        /\ last.value = last.target
        /\ ArenaUnchanged
        /\ stdout = Before.stdout

\* A Void was sent `add` with two arguments and a context other than itself.
C4_Witness ==
    /\ last.op = "send"
    /\ KindOf(Before, last.reference) = "Void"
    /\ last.target # last.reference
    /\ last.message.name = "add"
    /\ Len(last.message.arguments) = 2
    /\ last.value = last.target

\* The names of an argument list, and the elements of a parameter list.
NamesOf(arguments) == {arguments[i][1] : i \in 1..Len(arguments)}

Elements(list) == {list[i] : i \in 1..Len(list)}

\* As many arguments as parameters, and every parameter among their names.
Accepts(parameters, message) ==
    /\ Len(message.arguments) = Len(parameters)
    /\ Elements(parameters) \subseteq NamesOf(message.arguments)

\* The last operation sent `add` to a Number, the context a handle with a
\* numeric payload.
SendsAdd ==
    /\ last.op = "send"
    /\ KindOf(Before, last.reference) = "Number"
    /\ MetadataOf(Before, last.target).tag = "NumericValue"
    /\ last.message.name = "add"

\* C7: a signature accepts a message iff the message has as many
\* arguments as the signature has parameters and every parameter is the
\* name of an argument; for parameters without repetition the accepted
\* argument names are then exactly the parameters, none twice.  `add` sent
\* to a Number fails with InvalidSignature iff its arguments are not
\* exactly one named `to` (so with one named `amount`), and then allocates
\* nothing and writes nothing.
C7_SignatureValidation ==
    /\ last.op = "is_message_valid" =>
          /\ last.valid <=> Accepts(last.parameters, last.message)
          /\ (last.valid /\ Cardinality(Elements(last.parameters)) = Len(last.parameters))
                => /\ NamesOf(last.message.arguments) = Elements(last.parameters)
                   /\ Cardinality(NamesOf(last.message.arguments))
                         = Len(last.message.arguments)
    /\ SendsAdd =>
          /\ (last.error = "InvalidSignature") <=> ~Accepts(<<"to">>, last.message)
          /\ last.error = "InvalidSignature" =>
                ArenaUnchanged /\ stdout = Before.stdout
          /\ (Len(last.message.arguments) = 1
              /\ last.message.arguments[1][1] = "amount")
                => last.error = "InvalidSignature"

\* `add` with the single argument `amount` was sent to a Number, itself the
\* context, and failed with InvalidSignature.
C7_Witness ==
    /\ SendsAdd
    /\ last.target = last.reference
    /\ Len(last.message.arguments) = 1
    /\ last.message.arguments[1][1] = "amount"
    /\ last.error = "InvalidSignature"
    /\ ArenaUnchanged

\* The last operation sent `add` with the single argument `to: b` to the
\* Number a, itself the context, b a Number.
AddsNumbers ==
    /\ SendsAdd
    /\ last.target = last.reference
    /\ Len(last.message.arguments) = 1
    /\ last.message.arguments[1][1] = "to"
    /\ KindOf(Before, last.message.arguments[1][2]) = "Number"

AddReceiver == MetadataOf(Before, last.reference).val

AddArgument == MetadataOf(Before, last.message.arguments[1][2]).val

\* r = a + b modulo 2^64: limb by limb, with carries of 0 or 1.
SumMod64(a, b, r) ==
    \E c \in [1..4 -> {0, 1}] :
        \A i \in 1..4 :
            a[i] + b[i] + (IF i = 1 THEN 0 ELSE c[i - 1]) = r[i] + LimbBase * c[i]

\* The send returned a Number that is new in the arena and holds a + b
\* modulo 2^64; every object there was is as it was.
ReturnsWrappedSum ==
    /\ last.error = "None"
    /\ last.value = Special(Len(Before.special_objects) + 1)
    /\ Len(special_objects) = Len(Before.special_objects) + 1
    /\ SubSeq(special_objects, 1, Len(Before.special_objects)) = Before.special_objects
    /\ normal_objects = Before.normal_objects
    /\ special_objects[last.value.index].kind = "Number"
    /\ special_objects[last.value.index].metadata.tag = "NumericValue"
    /\ SumMod64(AddReceiver, AddArgument, special_objects[last.value.index].metadata.val)

\* C8 as claimed: `add` with `to: b` sent to Number a never fails and
\* returns a new Number holding a + b wrapped to 64 bits.
C8_AddNeverFails == AddsNumbers => ReturnsWrappedSum

\* C8 as amended: when a + b is in the 64-bit signed range, and in a build
\* without overflow checks, the send returns a new Number holding a + b
\* wrapped to 64 bits and leaves every other object as it was; when a + b
\* overflows in a build with overflow checks, the send panics and the
\* arena is unchanged.
C8_AddWrapsOrPanics ==
    AddsNumbers =>
        IF overflow_checks /\ AddOverflows(AddReceiver, AddArgument)
        THEN last.error = "ArithmeticOverflow" /\ ArenaUnchanged
             /\ stdout = Before.stdout
        ELSE ReturnsWrappedSum /\ stdout = Before.stdout

\* An overflowing sum was wrapped: i64::MAX add to: 1, without overflow checks.
C8_Witness ==
    /\ AddsNumbers
    /\ ~overflow_checks
    /\ AddReceiver = I64Max /\ AddArgument = I64One
    /\ last.error = "None"
    /\ special_objects[last.value.index].metadata.val = I64Min

Evaluated(block) == last.op = "eval" /\ last.block = block

\* The output is the lines `lines`, each a number of one digit.
Printed(lines) == stdout = [i \in 1..Len(lines) |-> <<lines[i]>>]

\* C2 as claimed: with `greet` held by P and `name` by C, which extends P,
\* the body of greet sent to C runs under C, so `name` resolves and the
\* program ends without error, having run name.
C2_GreetRunsUnderReceiver ==
    Evaluated(GreetProgram) => last.error = "None" /\ Printed(<<"7">>)

\* C3 as claimed: def x 1 / def f [x println] / def x 2 / f call ends
\* without error and prints the single line 2.
C3_ClosurePrintsRedefinition ==
    Evaluated(ClosureProgram) => last.error = "None" /\ Printed(<<"2">>)

\* C5 as claimed: def x 1 / def x 2 / x println ends without error and
\* prints 2 once.
C5_RedefinitionPrintsLast ==
    Evaluated(RedefinitionProgram) => last.error = "None" /\ Printed(<<"2">>)

\* The events that start a statement under the scope of the block entered
\* at event i.
StatementsOf(i) ==
    {j \in 1..Len(Trace) : Trace[j].ev = "statement" /\ Trace[j].obj = Trace[i].obj}

\* C6: every block evaluated has a scope of its own that is new when the
\* block is entered; its statements start under that scope one after the
\* other in source order, each once; and when the evaluation ends without
\* error every statement of every block entered was evaluated.  The three
\* lines of 1 println / 2 println / 3 println come out in that order.
C6_StatementsOnceInOrder ==
    last.op = "eval" =>
        /\ \A i \in 1..Len(Trace) :
              Trace[i].ev = "block" =>
                  /\ Trace[i].obj.tag = "Normal"
                  /\ Trace[i].obj.index > Len(Before.normal_objects)
                  /\ \A j \in 1..(i - 1) :
                        Trace[j].obj # Trace[i].obj /\ Trace[j].ctx # Trace[i].obj
                  /\ {Trace[j].n : j \in StatementsOf(i)}
                        = 1..Cardinality(StatementsOf(i))
                  /\ \A j, k \in StatementsOf(i) :
                        j < k => Trace[j].n < Trace[k].n
                  /\ Cardinality(StatementsOf(i)) <= Trace[i].n
                  /\ last.error = "None" =>
                        Cardinality(StatementsOf(i)) = Trace[i].n
        /\ last.block = PrintProgram =>
              last.error = "None" /\ Printed(<<"1", "2", "3">>)

\* A program of three statements was evaluated without error.
C6_Witness ==
    /\ Evaluated(PrintProgram)
    /\ last.error = "None"
    /\ Cardinality(StatementsOf(1)) = 3
    /\ Len(stdout) = 3

\* The properties of the Normal objects, as a sequence.
Properties == [i \in 1..Len(normal_objects) |-> DOMAIN normal_objects[i].properties]

\* C9: a block with no statement fails with EmptyBlock as soon as it is
\* entered, at the top level and in a lambda body: no event follows its
\* entry but the panic, so it prints nothing and defines nothing, and what
\* was printed and defined before stays.
C9_EmptyBlockFails ==
    last.op = "eval" =>
        /\ \A i \in 1..Len(Trace) :
              (Trace[i].ev = "block" /\ Trace[i].n = 0) =>
                  /\ Len(Trace) = i + 1
                  /\ Trace[i + 1].ev = "panic"
                  /\ Trace[i + 1].name = "EmptyBlock"
                  /\ last.error = "EmptyBlock"
        /\ last.block = Block(<<>>) =>
              /\ last.error = "EmptyBlock"
              /\ stdout = <<>>
              /\ Properties = <<{}>>
        /\ last.block = EmptyLambdaProgram =>
              /\ last.error = "EmptyBlock"
              /\ Printed(<<"1">>)
              /\ Properties = <<{"e"}, {}>>

\* The call of a lambda with an empty body failed with EmptyBlock after
\* the line printed before it.
C9_Witness ==
    /\ Evaluated(EmptyLambdaProgram)
    /\ last.error = "EmptyBlock"
    /\ Len(stdout) = 1
    /\ Trace[Len(Trace) - 1].ev = "block"
    /\ Trace[Len(Trace) - 1].n = 0

\* The handles met following the prototype links from h, h first, over at
\* most n links.
RECURSIVE PrototypeChain(_, _, _)
PrototypeChain(objects, h, n) ==
    IF h.tag # "Normal" \/ n = 0 THEN <<h>>
    ELSE <<h>> \o PrototypeChain(objects, objects[h.index].prototype, n - 1)

\* The chain of the Normal object i, and the handle it ends at.
ChainOf(i) == PrototypeChain(normal_objects, Normal(i), Len(normal_objects))

ChainEnd(i) == ChainOf(i)[Len(ChainOf(i))]

EventsOf(ev) == {i \in 1..Len(Trace) : Trace[i].ev = ev}

\* The last definition of `name` on the object `obj` among the events.
LastDefine(obj, name) ==
    CHOOSE i \in EventsOf("define") :
        /\ Trace[i].obj = obj /\ Trace[i].name = name
        /\ \A j \in EventsOf("define") :
              (Trace[j].obj = obj /\ Trace[j].name = name) => j <= i

\* C12: an evaluation raises at most one error, and the error is its last
\* event: no statement is started, no argument or message evaluated, no
\* handler entered, no line written and no property defined after it.  What
\* was written and defined before the error stays: the output has a line
\* for every println handled and the scopes hold exactly the properties
\* defined, each with the value last defined.  An error in the first
\* argument of a message leaves the second argument and the following
\* statement unevaluated.
C12_AbortOnFirstError ==
    last.op = "eval" =>
        /\ \A i \in EventsOf("panic") : i = Len(Trace) /\ Trace[i].name = last.error
        /\ last.error # "None" => Len(Trace) \in EventsOf("panic")
        /\ Len(stdout) = Cardinality(EventsOf("println"))
        /\ \A i \in EventsOf("define") :
              /\ Trace[i].obj.tag = "Normal"
              /\ Trace[i].name \in DOMAIN normal_objects[Trace[i].obj.index].properties
              /\ normal_objects[Trace[i].obj.index].properties[Trace[i].name]
                    = Trace[LastDefine(Trace[i].obj, Trace[i].name)].ctx
        /\ \A k \in 1..Len(normal_objects) :
              \A name \in DOMAIN normal_objects[k].properties :
                  \E i \in EventsOf("define") :
                      Trace[i].obj = Normal(k) /\ Trace[i].name = name
        /\ last.block = AbortedArgumentsProgram =>
              last.error = "UnknownMessage" /\ Printed(<<"1">>)
        /\ last.block = TypeMismatchProgram =>
              /\ last.error = "TypeMismatch"
              /\ Printed(<<"2">>)
              /\ Properties = <<{"v"}>>

\* An evaluation failed in its third statement after a definition and a
\* line written, with a fourth statement left.
C12_Witness ==
    /\ Evaluated(TypeMismatchProgram)
    /\ last.error = "TypeMismatch"
    /\ Cardinality(StatementsOf(1)) = 3
    /\ Cardinality(EventsOf("define")) = 1
    /\ Len(stdout) = 1

\* The prototype chain of the receiver of the last operation, in the arena
\* the operation started from.
ReceiverChain ==
    PrototypeChain(Before.normal_objects, last.reference, Len(Before.normal_objects))

\* The last operation sent a message to a Normal object whose chain ends
\* at the Root and has no property named by the message.
SendsUnknown ==
    /\ last.op = "send"
    /\ last.reference.tag = "Normal"
    /\ KindOf(Before, ReceiverChain[Len(ReceiverChain)]) = "Root"
    /\ \A j \in 1..(Len(ReceiverChain) - 1) :
          last.message.name
              \notin DOMAIN Before.normal_objects[ReceiverChain[j].index].properties

\* C13: a message whose name is a property neither of the receiving Normal
\* object nor of any object on its prototype chain is handed from each
\* object of the chain to the next, one lookup and one send per link, until
\* the Root's handler fails with UnknownMessage; no handle is returned and
\* nothing is changed or written.  The lookup of an identifier is such a
\* send (no argument, the scope as receiver and context).
C13_UnknownEndsAtRoot ==
    SendsUnknown =>
        /\ last.error = "UnknownMessage"
        /\ last.value = NoRef
        /\ ArenaUnchanged /\ stdout = Before.stdout
        /\ Len(Trace) = 2 * Len(ReceiverChain)
        /\ \A j \in 1..Len(ReceiverChain) :
              /\ Trace[2 * j - 1].ev = "send"
              /\ Trace[2 * j - 1].obj = ReceiverChain[j]
              /\ Trace[2 * j - 1].name = last.message.name
              /\ IF j < Len(ReceiverChain)
                 THEN /\ Trace[2 * j].ev = "lookup"
                      /\ Trace[2 * j].obj = ReceiverChain[j]
                      /\ Trace[2 * j].n = 0
                 ELSE Trace[2 * j].ev = "panic" /\ Trace[2 * j].name = "UnknownMessage"

\* The identifier x was looked up in a scope two links from the Root, bound
\* in neither scope, and the lookup failed with UnknownMessage.
C13_Witness ==
    /\ SendsUnknown
    /\ Len(ReceiverChain) = 3
    /\ last.message = EvaluatedMessage("x", <<>>)
    /\ last.target = last.reference
    /\ last.error = "UnknownMessage"

\* The blocks entered by the last operation after the first (the program).
BodiesEntered == {i \in EventsOf("block") : i > 1}

\* C14 as claimed: with f bound in the current scope to a lambda, `f call`
\* evaluates the body once, in a new scope extending the captured scope,
\* and has the value of the body's last statement: the Number 1 for the
\* body [1], and the inner lambda, not called, for the body [[1 println]].
C14_CallReturnsBodyValue ==
    /\ Evaluated(NumberBodyProgram) =>
          /\ last.error = "None"
          /\ Cardinality(BodiesEntered) = 1
          /\ \A i \in BodiesEntered : Trace[i].ctx = Trace[1].obj
          /\ KindOf(Current, last.value) = "Number"
          /\ MetadataOf(Current, last.value).val = I64One
    /\ Evaluated(LambdaBodyProgram) =>
          /\ last.error = "None"
          /\ Cardinality(BodiesEntered) = 1
          /\ \A i \in BodiesEntered : Trace[i].ctx = Trace[1].obj
          /\ KindOf(Current, last.value) = "Lambda"
          /\ stdout = <<>>

\* C15 as claimed: the messages of a chain are folded left to right, each
\* sent to the handle the one before returned: in the send with the target
\* 2 and the messages `add to: 3`, `println`, the second message goes to
\* the sum, as receiver and context, and the line 5 is written.
C15_ChainFoldsLeftToRight ==
    Evaluated(ChainProgram) =>
        /\ last.error = "None"
        /\ Printed(<<"5">>)
        /\ \A i \in EventsOf("send") :
              Trace[i].name = "println" =>
                  /\ Trace[i].obj = Trace[i].ctx
                  /\ MetadataOf(Current, Trace[i].obj).val = ToI64(5)

\* The declared arguments of the message given to eval_message.
Declared == last.declared.arguments

\* The events that start the evaluation of an argument.
Arguments == EventsOf("argument")

\* C16: eval_message evaluates the argument expressions of a message under
\* the scope given, each once, in the order declared (none after one that
\* failed), and the pairs it returns are as many as the arguments declared,
\* with their names in the same order, each with the handle its expression
\* evaluated to (for literals: new Numbers, allocated in that order, with
\* the payloads of the literals); the lines the arguments write come out in
\* that order.  In an expression the arguments are evaluated before the
\* message is sent: 1 add by: (1 println) to: (2 println) writes 1 and 2
\* and then fails in add.
C16_ArgumentsOnceInOrder ==
    /\ last.op = "eval_message" =>
          /\ \A i \in Arguments :
                /\ Trace[i].obj = last.reference
                /\ Trace[i].n \in 1..Len(Declared)
                /\ Trace[i].name = Declared[Trace[i].n].name
          /\ \A i, j \in Arguments : i < j => Trace[i].n < Trace[j].n
          /\ {Trace[i].n : i \in Arguments} = 1..Cardinality(Arguments)
          /\ last.error # "None" => Trace[Len(Trace)].ev = "panic"
          /\ last.error = "None" =>
                /\ Cardinality(Arguments) = Len(Declared)
                /\ last.message.name = last.declared.name
                /\ Len(last.message.arguments) = Len(Declared)
                /\ \A i \in 1..Len(Declared) :
                      /\ last.message.arguments[i][1] = Declared[i].name
                      /\ last.message.arguments[i][2] \in Handles
                      /\ Declared[i].value.type = "Number" =>
                            /\ KindOf(Current, last.message.arguments[i][2]) = "Number"
                            /\ last.message.arguments[i][2].index
                                  > Len(Before.special_objects)
                            /\ MetadataOf(Current, last.message.arguments[i][2]).val
                                  = parse_i64(Declared[i].value.digits)[2]
                /\ \A i, j \in 1..Len(Declared) :
                      (i < j /\ last.message.arguments[i][2].tag = "Special"
                             /\ last.message.arguments[j][2].tag = "Special")
                         => last.message.arguments[i][2].index
                               < last.message.arguments[j][2].index
                /\ last.declared = PrintingArguments =>
                      stdout = Before.stdout \o <<<<"1">>, <<"2">>>>
                /\ last.declared = LiteralArguments => stdout = Before.stdout
    /\ Evaluated(ArgumentsProgram) =>
          /\ last.error = "InvalidSignature"
          /\ Printed(<<"1", "2">>)
          /\ Cardinality(Arguments) = 2
          /\ \A i \in EventsOf("send") :
                Trace[i].name = "add" =>
                    /\ Trace[i].n = 2
                    /\ \A j \in Arguments : j < i

\* eval_message returned the two pairs of add by: (1 println) to: (2 println)
\* after the two lines were written.
C16_Witness ==
    /\ last.op = "eval_message"
    /\ last.declared = PrintingArguments
    /\ last.error = "None"
    /\ Len(last.message.arguments) = 2
    /\ Len(stdout) = Len(Before.stdout) + 2

\* The last operation sent a Normal object a message named as one of its
\* properties; the handle stored under that name.
SendsProperty ==
    /\ last.op = "send"
    /\ last.reference.tag = "Normal"
    /\ last.message.name
          \in DOMAIN Before.normal_objects[last.reference.index].properties

Stored == Before.normal_objects[last.reference.index].properties[last.message.name]

\* `call` without arguments sent to the stored handle, itself the context,
\* in the arena the last operation started from.
CallStored == send(Before, Stored, Stored, EvaluatedMessage("call", <<>>), 2)

\* C17: a Normal object that receives a message named as one of its
\* properties, with or without arguments and with any context, looks the
\* name up once, sends `call` without arguments to the handle stored, with
\* that handle as the context, and does nothing else: the events that
\* follow, the result, the arena and the output are those of that send, so
\* the prototype is not asked and the arguments are dropped.  When the
\* handle stored is a Number the result is UnknownMessage and nothing is
\* changed or written.
C17_PropertyIsCalled ==
    SendsProperty =>
        /\ Len(Trace) >= 3
        /\ Trace[1] = Event("send", last.reference, last.target, last.message.name,
                            Len(last.message.arguments))
        /\ Trace[2] = Event("lookup", last.reference, last.target,
                            last.message.name, 1)
        /\ Trace[3] = Event("send", Stored, Stored, "call", 0)
        /\ SubSeq(Trace, 3, Len(Trace)) = CallStored.st.trace
        /\ last.error = CallStored.error
        /\ last.value = CallStored.value
        /\ normal_objects = CallStored.st.normal_objects
        /\ special_objects = CallStored.st.special_objects
        /\ stdout = CallStored.st.stdout
        /\ KindOf(Before, Stored) = "Number" =>
              /\ last.error = "UnknownMessage"
              /\ Len(Trace) = 4
              /\ ArenaUnchanged /\ stdout = Before.stdout

\* x, sent with an argument to a scope that holds a Number under x, failed
\* with UnknownMessage.
C17_Witness ==
    /\ SendsProperty
    /\ KindOf(Before, Stored) = "Number"
    /\ Len(last.message.arguments) = 1
    /\ last.target # last.reference
    /\ last.error = "UnknownMessage"

\* C18 as claimed: a message sent to a Lambda fails with UnknownMessage when
\* its name is not `call`, and fails with InvalidSignature when it is
\* `call` with one or more arguments; in both cases the body is not
\* evaluated, so no block is entered and nothing is allocated or written.
C18_LambdaAcceptsOnlyBareCall ==
    (last.op = "send" /\ KindOf(Before, last.reference) = "Lambda") =>
        /\ last.message.name # "call" =>
              /\ last.error = "UnknownMessage"
              /\ EventsOf("block") = {}
              /\ ArenaUnchanged /\ stdout = Before.stdout
        /\ (last.message.name = "call" /\ Len(last.message.arguments) > 0) =>
              /\ last.error = "InvalidSignature"
              /\ EventsOf("block") = {}
              /\ ArenaUnchanged /\ stdout = Before.stdout

\* The handles of the arena the last operation started from.
HandlesBefore ==
    {Normal(i) : i \in 1..Len(Before.normal_objects)}
        \cup {Special(i) : i \in 1..Len(Before.special_objects)}

\* Every object there was before the last operation is where it was, a
\* Normal object with the prototype it had, a native object as it was.
ArenaOnlyGrew ==
    /\ Len(normal_objects) >= Len(Before.normal_objects)
    /\ Len(special_objects) >= Len(Before.special_objects)
    /\ \A i \in 1..Len(Before.normal_objects) :
          normal_objects[i].prototype = Before.normal_objects[i].prototype
    /\ \A i \in 1..Len(Before.special_objects) :
          special_objects[i] = Before.special_objects[i]

\* C19: create does not fail and returns a handle that no object had
\* before; the object it denotes is the only new one, has the prototype
\* given and no property; every object there was is unchanged, prototype
\* and properties, under the handle it had, and nothing is written.  No
\* operation on the arena frees or moves an object or changes a prototype.
C19_CreateIsFresh ==
    /\ last.op = "create" =>
          /\ last.error = "None"
          /\ last.value \notin HandlesBefore
          /\ last.value \in Handles
          /\ last.value = Normal(Len(normal_objects))
          /\ Len(normal_objects) = Len(Before.normal_objects) + 1
          /\ normal_objects[last.value.index].prototype = last.reference
          /\ DOMAIN normal_objects[last.value.index].properties = {}
          /\ \A i \in 1..Len(Before.normal_objects) :
                normal_objects[i] = Before.normal_objects[i]
          /\ special_objects = Before.special_objects
          /\ stdout = Before.stdout
    /\ last.op # "none" => ArenaOnlyGrew

\* create was given a Normal object that holds a property and returned the
\* handle of a second Normal object.
C19_Witness ==
    /\ last.op = "create"
    /\ last.reference = Normal(1)
    /\ "x" \in DOMAIN normal_objects[1].properties
    /\ last.value = Normal(2)
    /\ normal_objects[2].prototype = Normal(1)

\* The blocks entered before event i and not yet left at event i.
OpenBlocks(i) ==
    {j \in EventsOf("block") :
        /\ j < i
        /\ \A k \in EventsOf("return") : (j < k /\ k < i) => Trace[k].obj # Trace[j].obj}

\* The block being evaluated at event i: the one entered last.
Innermost(i) == CHOOSE j \in OpenBlocks(i) : \A k \in OpenBlocks(i) : k <= j

\* C20: every definition made during an evaluation is made on the scope of
\* the block being evaluated at that moment, the one entered last and not
\* yet left.  A send to a scope, which calls the lambda stored, leaves
\* every object there was as it was, properties included: what the body
\* defines is in the new scope of the call.  So in def x [2 println] /
\* def f [def x [3 println] ; x call] / f call / x call / f call the outer x
\* is still the first lambda after the calls (the lines are 3, 2, 3), and
\* in def f [def y [1 println] ; 2 println] / f call / f call / y call each
\* call has a scope and a y of its own and the outer scope has no y.
C20_DefinitionsStayLocal ==
    /\ last.op \in {"eval", "send", "eval_message"} =>
          \A i \in EventsOf("define") :
              /\ OpenBlocks(i) # {}
              /\ Trace[i].obj = Trace[Innermost(i)].obj
    /\ last.op \in {"send", "eval_message"} =>
          \A i \in 1..Len(Before.normal_objects) :
              normal_objects[i] = Before.normal_objects[i]
    /\ Evaluated(ShadowProgram) =>
          /\ last.error = "None"
          /\ Printed(<<"3", "2", "3">>)
          /\ Properties = <<{"x", "f"}, {"x"}, {}, {}, {"x"}, {}>>
          /\ normal_objects[1].properties["x"] = Trace[LastDefine(Normal(1), "x")].ctx
          /\ Cardinality({i \in EventsOf("define") :
                             Trace[i].obj = Normal(1) /\ Trace[i].name = "x"}) = 1
    /\ Evaluated(LocalProgram) =>
          /\ last.error = "UnknownMessage"
          /\ Printed(<<"2", "2">>)
          /\ Properties = <<{"f"}, {"y"}, {"y"}>>
          /\ normal_objects[2].prototype = Normal(1)
          /\ normal_objects[3].prototype = Normal(1)
          /\ normal_objects[2].properties["y"] # normal_objects[3].properties["y"]

\* f was sent to the scope left by the first of the two programs: its body
\* defined x in the scope of the call and the x of the scope stayed.
C20_Witness ==
    /\ last.op = "send"
    /\ last.reference = Normal(1)
    /\ last.message.name = "f"
    /\ DOMAIN Before.normal_objects[1].properties = {"x", "f"}
    /\ last.error = "None"
    /\ \E i \in EventsOf("define") :
          /\ Trace[i].name = "x"
          /\ Trace[i].obj = Normal(Len(Before.normal_objects) + 1)
    /\ Len(normal_objects) = Len(Before.normal_objects) + 2
    /\ DOMAIN normal_objects[Len(Before.normal_objects) + 1].properties = {"x"}
    /\ normal_objects[1] = Before.normal_objects[1]

=============================================================================
